---- MODULE Spec2Model ----
(***************************************************************************)
(* stdio-utils: summing the numbers read from a stream of lines.           *)
(*                                                                         *)
(* The model follows src/src/lib.rs (sum, sum_strings, read, as_number,    *)
(* Error and its Display) and src/src/main.rs (the executable around sum). *)
(* A line is a sequence of one-character strings.  Number is isize; its    *)
(* width is scaled down to NumberBits so that the overflow cases of        *)
(* str::parse and of the integer Sum are reachable.                        *)
(***************************************************************************)
EXTENDS Integers, Sequences, FiniteSets, TLC

\* ------------------------------------------------------------------ bounds

\* Longest line explored for single-line inputs.
MaxLen == 3

\* Longest input sequence explored over SampleItems.
MaxItems == 3

\* Width in bits of Number (isize), scaled down.
NumberBits == 5

\* ------------------------------------------------------------- characters

Whitespace == {" ", "\t"}

DigitChars == <<"0", "1", "2", "3", "4", "5", "6", "7", "8", "9">>

IsDigit(c) == \E d \in 1..Len(DigitChars) : DigitChars[d] = c

\* char::to_digit(10) of a digit character.
DigitValue(c) == (CHOOSE d \in 1..Len(DigitChars) : DigitChars[d] = c) - 1

\* The characters lines are built from: whitespace, signs, some digits and
\* the invalid character of the tests (bad_input_char).
Alphabet == {" ", "\t", "+", "-", "0", "1", "6", "$"}

RECURSIVE LinesOfLen(_)
LinesOfLen(n) ==
    IF n = 0 THEN {<<>>}
    ELSE {Append(l, c) : l \in LinesOfLen(n - 1), c \in Alphabet}

Lines == UNION {LinesOfLen(n) : n \in 0..MaxLen}

\* ----------------------------------------------------------------- Number

RECURSIVE Pow2(_)
Pow2(n) == IF n = 0 THEN 1 ELSE 2 * Pow2(n - 1)

MaxNumber == Pow2(NumberBits - 1) - 1
MinNumber == -Pow2(NumberBits - 1)

InRange(x) == MinNumber <= x /\ x <= MaxNumber

\* Two's complement wrap-around of an addition that left the range.
WrapNumber(x) == ((x - MinNumber) % Pow2(NumberBits)) + MinNumber

\* ----------------------------------------------------------- trim, parse

\* str::trim: drops the whitespace at both ends.
RECURSIVE TrimStart(_)
TrimStart(s) ==
    IF s # <<>> /\ Head(s) \in Whitespace THEN TrimStart(Tail(s)) ELSE s

RECURSIVE TrimEnd(_)
TrimEnd(s) ==
    IF s # <<>> /\ s[Len(s)] \in Whitespace
    THEN TrimEnd(SubSeq(s, 1, Len(s) - 1))
    ELSE s

Trim(s) == TrimEnd(TrimStart(s))

ParseOk(v) == [ok |-> TRUE, value |-> v, kind |-> "none"]
ParseErr(k) == [ok |-> FALSE, value |-> 0, kind |-> k]

\* The digit loop of <isize as FromStr>::from_str: checked_mul by the
\* radix, then checked_add (checked_sub for a negative number) of the digit.
RECURSIVE ParseDigits(_, _, _)
ParseDigits(digits, positive, result) ==
    IF digits = <<>> THEN ParseOk(result)
    ELSE IF ~IsDigit(Head(digits)) THEN ParseErr("InvalidDigit")
    ELSE LET mul == result * 10
             x == DigitValue(Head(digits))
             next == IF positive THEN mul + x ELSE mul - x
         IN  IF ~InRange(mul) \/ ~InRange(next)
             THEN ParseErr(IF positive THEN "PosOverflow" ELSE "NegOverflow")
             ELSE ParseDigits(Tail(digits), positive, next)

\* str::parse::<Number>: an optional sign, then one or more digits.
ParseNumber(src) ==
    IF src = <<>> THEN ParseErr("Empty")
    ELSE IF Head(src) \in {"+", "-"} /\ Tail(src) = <<>>
         THEN ParseErr("InvalidDigit")
    ELSE IF Head(src) = "+" THEN ParseDigits(Tail(src), TRUE, 0)
    ELSE IF Head(src) = "-" THEN ParseDigits(Tail(src), FALSE, 0)
    ELSE ParseDigits(src, TRUE, 0)

\* ------------------------------------------------------------------ Error

\* Result<Number, Error>: Ok(number) or one of the two variants of Error.
OkNumber(v) == [tag |-> "Ok", value |-> v]
InputError(e) == [tag |-> "InputError", source |-> e]
ParsingError(text, kind) == [tag |-> "ParsingError", input |-> text, source |-> kind]

InputErrorMessage ==
    <<"C", "o", "u", "l", "d", " ", "n", "o", "t", " ", "r", "e",
      "a", "d", " ", "i", "n", "p", "u", "t">>

ParsingErrorPrefix ==
    <<"C", "o", "u", "l", "d", " ", "n", "o", "t", " ", "p", "a",
      "r", "s", "e", " ", "\"">>

ParsingErrorSuffix ==
    <<"\"", " ", "t", "o", " ", "n", "u", "m", "b", "e", "r">>

\* Display with a placeholder where the offending text is empty.
to_string_placeholder(err) ==
    IF err.tag = "InputError" THEN InputErrorMessage
    ELSE ParsingErrorPrefix
         \o (IF err.input = <<>> THEN <<"$">> ELSE err.input)
         \o ParsingErrorSuffix

\* Display of Error (the #[error("...")] attributes).
to_string(err) ==
    IF err.tag = "InputError" THEN InputErrorMessage
    ELSE ParsingErrorPrefix \o err.input \o ParsingErrorSuffix

\* ------------------------------------------------------------ input items

\* An element of the iterator given to sum: Result<S, io::Error>.
Ok(line) == [tag |-> "Ok", line |-> line]
Err(e) == [tag |-> "Err", error |-> e]

\* An element of the iterator given to sum_strings: a plain &str.
Str(line) == [tag |-> "Str", line |-> line]

None == [tag |-> "None"]

\* sum did not return: the addition panicked.
Panicked == [tag |-> "Panic"]

IoErrors == {"InvalidData", "Other"}

\* Lines used in longer input sequences: empty, blank, invalid, and
\* numbers with and without surrounding whitespace, sign and overflow.
SampleLines ==
    { <<>>, <<" ">>, <<"$">>, <<" ", "$">>,
      <<"1", "1">>, <<" ", "1", "1">>, <<"-", "1", "1">>, <<"1", "6">> }

SampleItems == {Ok(l) : l \in SampleLines} \cup {Err(e) : e \in IoErrors}

SampleStrings == {Str(l) : l \in SampleLines}

RECURSIVE SeqsOfLen(_, _)
SeqsOfLen(S, n) ==
    IF n = 0 THEN {<<>>}
    ELSE {Append(q, x) : q \in SeqsOfLen(S, n - 1), x \in S}

SeqsUpTo(S, n) == UNION {SeqsOfLen(S, k) : k \in 0..n}

\* A number, an invalid line and a failed read, for sequences long enough
\* to hold two failing items after an accumulator overflow.
CoreItems == {Ok(<<"1", "1">>), Ok(<<"$">>), Err("InvalidData")}

\* Inputs of sum: short sequences over the sample items, sequences one
\* longer over the core items, and every single line up to MaxLen.
ResultInputs ==
    SeqsUpTo(SampleItems, MaxItems)
        \cup SeqsOfLen(CoreItems, MaxItems + 1)
        \cup {<<Ok(l)>> : l \in Lines}

\* Inputs of sum_strings, likewise.
StringInputs == SeqsUpTo(SampleStrings, MaxItems) \cup {<<Str(l)>> : l \in Lines}

\* ------------------------------------------------------------ the library

\* as_number without the trim.
as_number_untrimmed(line) ==
    LET r == ParseNumber(line)
    IN  IF r.ok THEN OkNumber(r.value) ELSE ParsingError(line, r.kind)

\* as_number counting a line that is empty after the trim as zero.
as_number_empty_zero(line) ==
    LET r == ParseNumber(Trim(line))
    IN  IF r.ok THEN OkNumber(r.value)
        ELSE IF r.kind = "Empty" THEN OkNumber(0)
        ELSE ParsingError(line, r.kind)

\* as_number keeping the trimmed text in the error.
as_number_trimmed_input(line) ==
    LET r == ParseNumber(Trim(line))
    IN  IF r.ok THEN OkNumber(r.value) ELSE ParsingError(Trim(line), r.kind)

\* as_number: trim, parse, and on failure keep the line as it was given.
as_number(line) ==
    LET r == ParseNumber(Trim(line))
    IN  IF r.ok THEN OkNumber(r.value) ELSE ParsingError(line, r.kind)

\* read replacing a failed read by an empty line.
read_lossy(item) ==
    IF item.tag = "Err" THEN Ok(<<>>) ELSE item

\* The closure of read: line.map_err(Error::InputError).
read(item) ==
    IF item.tag = "Err" THEN Err(InputError(item.error)) ELSE item

\* The closure of sum: as_number(line?).
sum_closure(item) ==
    IF item.tag = "Err" THEN item.error ELSE as_number(item.line)

\* sum_strings trimming the strings it hands to sum.
sum_strings_trimmed(s) == Ok(Trim(s.line))

\* The closure of sum_strings: strings.map(Ok).
sum_strings(s) == Ok(s.line)

\* An accumulation that has no value for an empty iterator.
sum_finish_nonempty(total, pulled) ==
    IF pulled = 0 THEN ParsingError(<<>>, "Empty") ELSE OkNumber(total)

\* What Iterator::sum returns when the iterator is exhausted.
sum_finish(total, pulled) == OkNumber(total)

\* sum as a function of the whole input: the fold of Iterator::sum over
\* the mapped items, stopping at the first error.
RECURSIVE sum_from(_, _, _, _)
sum_from(items, k, total, checks) ==
    IF k > Len(items) THEN sum_finish(total, Len(items))
    ELSE LET r == sum_closure(read(items[k]))
         IN  IF r.tag # "Ok" THEN r
             ELSE IF checks /\ ~InRange(total + r.value) THEN Panicked
             ELSE sum_from(items, k + 1, WrapNumber(total + r.value), checks)

sum(items, checks) == sum_from(items, 1, 0, checks)

\* ------------------------------------------------------------------ state

VARIABLES
    caller,          \* who runs sum: "sum", "sum_strings" or "main"
    overflowChecks,  \* the build's overflow-checks setting
    input,           \* the items the input iterator will yield
    pos,             \* number of items pulled from the input iterator
    held,            \* the item pulled and not yet processed, or None
    handled,         \* number of items the closures have processed
    acc,             \* the accumulator of Iterator::sum
    pc,              \* "next", "item", "returned", "panicked", "exited"
    outcome,         \* what sum returned (Panicked if it panicked), None before
    stdout,          \* lines printed to standard output
    stderr,          \* lines printed to the error stream
    exitStatus       \* exit status of the process, -1 while it runs

vars == <<caller, overflowChecks, input, pos, held, handled, acc, pc,
          outcome, stdout, stderr, exitStatus>>

Init ==
    /\ caller \in {"sum", "sum_strings", "main"}
    /\ overflowChecks \in BOOLEAN
    /\ input \in IF caller = "sum_strings" THEN StringInputs ELSE ResultInputs
    /\ pos = 0
    /\ held = None
    /\ handled = 0
    /\ acc = 0
    /\ pc = "next"
    /\ outcome = None
    /\ stdout = <<>>
    /\ stderr = <<>>
    /\ exitStatus = -1

process == <<stdout, stderr, exitStatus>>
config == <<caller, overflowChecks, input>>

\* The item lines.next() yields at position k.
ItemAt(k) == IF caller = "sum_strings" THEN sum_strings(input[k]) ELSE input[k]

\* A pull that does not wait for the held item to be processed.
PullAhead ==
    /\ pc \in {"next", "item"}
    /\ pos < Len(input)
    /\ held' = ItemAt(pos + 1)
    /\ pos' = pos + 1
    /\ pc' = "item"
    /\ UNCHANGED <<config, handled, acc, outcome, process>>

\* sum asks the input iterator for the next item and gets one.
Pull ==
    /\ pc = "next"
    /\ pos < Len(input)
    /\ held' = ItemAt(pos + 1)
    /\ pos' = pos + 1
    /\ pc' = "item"
    /\ UNCHANGED <<config, handled, acc, outcome, process>>

\* The input iterator is exhausted: sum returns the accumulator.
EndOfInput ==
    /\ pc = "next"
    /\ pos = Len(input)
    /\ outcome' = sum_finish(acc, pos)
    /\ pc' = "returned"
    /\ UNCHANGED <<config, pos, held, handled, acc, process>>

\* The held item parsed to a number and the addition fits, or the build
\* wraps on overflow.
AddNumber ==
    /\ pc = "item"
    /\ LET r == sum_closure(read(held))
       IN  /\ r.tag = "Ok"
           /\ InRange(acc + r.value) \/ ~overflowChecks
           /\ acc' = WrapNumber(acc + r.value)
    /\ held' = None
    /\ handled' = handled + 1
    /\ pc' = "next"
    /\ UNCHANGED <<config, pos, outcome, process>>

\* The addition overflows in a build with overflow checks: a + b panics.
AddOverflow ==
    /\ pc = "item"
    /\ LET r == sum_closure(read(held))
       IN  /\ r.tag = "Ok"
           /\ ~InRange(acc + r.value)
           /\ overflowChecks
    /\ outcome' = Panicked
    /\ held' = None
    /\ handled' = handled + 1
    /\ pc' = "panicked"
    /\ UNCHANGED <<config, pos, acc, process>>

\* A failing item that is skipped instead of ending the call.
SkipItem ==
    /\ pc = "item"
    /\ sum_closure(read(held)).tag # "Ok"
    /\ held' = None
    /\ handled' = handled + 1
    /\ pc' = "next"
    /\ UNCHANGED <<config, pos, acc, outcome, process>>

\* A failing item reported after looking through the rest of the input:
\* a failed read further on takes precedence over a parse failure.
FailItemInputErrorFirst ==
    /\ pc = "item"
    /\ LET r == sum_closure(read(held))
           later == {j \in (pos + 1)..Len(input) : ItemAt(j).tag = "Err"}
       IN  /\ r.tag # "Ok"
           /\ outcome' = IF r.tag = "ParsingError" /\ later # {}
                         THEN InputError(ItemAt(CHOOSE j \in later :
                                                \A i \in later : j <= i).error)
                         ELSE r
    /\ held' = None
    /\ handled' = handled + 1
    /\ pc' = "returned"
    /\ UNCHANGED <<config, pos, acc, process>>

\* The held item is an Err or does not parse: sum returns the error.
FailItem ==
    /\ pc = "item"
    /\ LET r == sum_closure(read(held))
       IN  /\ r.tag # "Ok"
           /\ outcome' = r
    /\ held' = None
    /\ handled' = handled + 1
    /\ pc' = "returned"
    /\ UNCHANGED <<config, pos, acc, process>>

\* ----------------------------------------------------------- the executable

\* Display of a Number, as println!("{}", sum) writes it.
RECURSIVE FormatNatural(_)
FormatNatural(n) ==
    IF n < 10 THEN <<DigitChars[n + 1]>>
    ELSE Append(FormatNatural(n \div 10), DigitChars[(n % 10) + 1])

FormatNumber(v) == IF v < 0 THEN <<"-">> \o FormatNatural(-v) ELSE FormatNatural(v)

\* main: sum returned Ok, the sum is printed.
MainPrintSum ==
    /\ caller = "main"
    /\ pc = "returned"
    /\ outcome.tag = "Ok"
    /\ stdout' = Append(stdout, FormatNumber(outcome.value))
    /\ exitStatus' = 0
    /\ pc' = "exited"
    /\ UNCHANGED <<config, pos, held, handled, acc, outcome, stderr>>

\* main reporting the error and going on to print a sum.
MainReportErrorAndPrint ==
    /\ caller = "main"
    /\ pc = "returned"
    /\ outcome.tag \in {"InputError", "ParsingError"}
    /\ stderr' = Append(stderr, <<"Bad input data: ", outcome.source>>)
    /\ stdout' = Append(stdout, FormatNumber(0))
    /\ exitStatus' = 0
    /\ pc' = "exited"
    /\ UNCHANGED <<config, pos, held, handled, acc, outcome>>

\* main: sum returned an error, eprintln! and std::process::exit(1).
MainReportError ==
    /\ caller = "main"
    /\ pc = "returned"
    /\ outcome.tag \in {"InputError", "ParsingError"}
    /\ stderr' = Append(stderr,
                        IF outcome.tag = "InputError"
                        THEN <<"I/O error reading from stdin: ", outcome.source>>
                        ELSE <<"Bad input data: ", outcome.source>>)
    /\ exitStatus' = 1
    /\ pc' = "exited"
    /\ UNCHANGED <<config, pos, held, handled, acc, outcome, stdout>>

\* main: the panic of sum unwinds out of main, the runtime reports it.
MainPanic ==
    /\ caller = "main"
    /\ pc = "panicked"
    /\ stderr' = Append(stderr, <<"thread 'main' panicked: ", "attempt to add with overflow">>)
    /\ exitStatus' = 101
    /\ pc' = "exited"
    /\ UNCHANGED <<config, pos, held, handled, acc, outcome, stdout>>

Next ==
    \/ Pull
    \/ EndOfInput
    \/ AddNumber
    \/ AddOverflow
    \/ FailItem
    \/ MainPrintSum
    \/ MainReportError
    \/ MainPanic

Spec == Init /\ [][Next]_vars

\* ------------------------------------------- notions the claims are stated in

\* The text of a line between its first and its last non-whitespace character.
NonWhitespace(s) == {i \in 1..Len(s) : s[i] \notin Whitespace}

Trimmed(s) ==
    IF NonWhitespace(s) = {} THEN <<>>
    ELSE SubSeq(s,
                CHOOSE i \in NonWhitespace(s) : \A j \in NonWhitespace(s) : i <= j,
                CHOOSE i \in NonWhitespace(s) : \A j \in NonWhitespace(s) : j <= i)

Unsigned(t) == IF t # <<>> /\ t[1] \in {"+", "-"} THEN Tail(t) ELSE t

\* An optional sign followed by one or more decimal digits, nothing else.
IsSignedDigits(t) ==
    /\ Len(Unsigned(t)) >= 1
    /\ \A i \in 1..Len(Unsigned(t)) :
           Unsigned(t)[i] \in {"0", "1", "2", "3", "4", "5", "6", "7", "8", "9"}

RECURSIVE Pow10(_)
Pow10(n) == IF n = 0 THEN 1 ELSE 10 * Pow10(n - 1)

RECURSIVE PositionalSum(_, _)
PositionalSum(d, i) ==
    IF i > Len(d) THEN 0
    ELSE DigitValue(d[i]) * Pow10(Len(d) - i) + PositionalSum(d, i + 1)

\* The integer a text of sign and digits denotes (0 for any other text).
DecimalValue(t) ==
    IF ~IsSignedDigits(t) THEN 0
    ELSE IF t[1] = "-" THEN -PositionalSum(Unsigned(t), 1)
    ELSE PositionalSum(Unsigned(t), 1)

\* The item is Ok(line) and the trimmed line is a decimal integer that
\* Number can hold.
ValidItem(item) ==
    /\ item.tag = "Ok"
    /\ IsSignedDigits(Trimmed(item.line))
    /\ InRange(DecimalValue(Trimmed(item.line)))

\* The arithmetic sum of the trimmed values of the first k items.
LineValue(item) ==
    IF item.tag = "Ok" THEN DecimalValue(Trimmed(item.line)) ELSE 0

RECURSIVE RunningTotal(_)
RunningTotal(k) ==
    IF k = 0 THEN 0 ELSE RunningTotal(k - 1) + LineValue(ItemAt(k))

AllValidBefore(k) == \A j \in 1..(k - 1) : ValidItem(ItemAt(j))

\* No running total of the first k items leaves the range of Number.
NoOverflowUpTo(k) == \A j \in 1..k : InRange(RunningTotal(j))

\* The call of sum is over: it returned or panicked.
SumEnded == pc \in {"returned", "panicked", "exited"}

Contains(msg, t) ==
    \E i \in 0..(Len(msg) - Len(t)) : SubSeq(msg, i + 1, i + Len(t)) = t

\* ------------------------------------------------------------------ claims

AllValid == \A k \in 1..Len(input) : ValidItem(ItemAt(k))

\* C1 as stated: whenever every item is Ok(line) with a line that trims to
\* a valid decimal integer, sum returns Ok of the arithmetic sum of the
\* trimmed values.  Fails when the sum leaves the range of Number.
C1_SumIsArithmeticSum ==
    (SumEnded /\ AllValid) => outcome = OkNumber(RunningTotal(Len(input)))

\* C1 amended: whenever every item is Ok(line) with a line that trims to a
\* valid decimal integer, and no running total leaves the range of Number,
\* sum returns Ok of the arithmetic sum of the trimmed values, whatever
\* whitespace surrounds them.
C1_SumIsArithmeticSumInRange ==
    (SumEnded /\ AllValid /\ NoOverflowUpTo(Len(input)))
        => outcome = OkNumber(RunningTotal(Len(input)))

\* A sum of several valid lines, one of them with whitespace around it,
\* has been returned.
C1_Witness ==
    /\ pc = "returned"
    /\ Len(input) >= 2
    /\ AllValid
    /\ NoOverflowUpTo(Len(input))
    /\ \E k \in 1..Len(input) : ItemAt(k).line # Trimmed(ItemAt(k).line)
    /\ outcome.tag = "Ok"
    /\ outcome.value # 0

\* C2 as stated: an Err item at position k after items that all parse makes
\* sum return InputError wrapping that error, and no item after k is pulled.
\* Fails when the items before k overflow in a build with overflow checks.
C2_InputErrorPropagates ==
    \A k \in 1..Len(input) :
        (ItemAt(k).tag = "Err" /\ AllValidBefore(k))
            => /\ pos <= k
               /\ SumEnded => outcome = InputError(ItemAt(k).error)

\* C2 amended: an Err item at position k after items that all parse and
\* whose running totals stay in the range of Number makes sum return
\* InputError wrapping that error; with or without overflow, no item after
\* k is pulled.
C2_InputErrorPropagatesInRange ==
    \A k \in 1..Len(input) :
        (ItemAt(k).tag = "Err" /\ AllValidBefore(k))
            => /\ pos <= k
               /\ (SumEnded /\ NoOverflowUpTo(k - 1))
                      => outcome = InputError(ItemAt(k).error)

\* sum returned the InputError of an Err item that has numbers before it
\* and an item after it.
C2_Witness ==
    /\ pc = "returned"
    /\ outcome.tag = "InputError"
    /\ pos >= 2
    /\ pos < Len(input)
    /\ ItemAt(pos).tag = "Err"

\* C3 as stated: an unparsable line at position k after items that all
\* parse makes sum return ParsingError, never Ok, and no item after k is
\* pulled.  Fails when the items before k overflow in a build with
\* overflow checks.
C3_ParsingErrorHalts ==
    \A k \in 1..Len(input) :
        (ItemAt(k).tag = "Ok" /\ ~ValidItem(ItemAt(k)) /\ AllValidBefore(k))
            => /\ pos <= k
               /\ SumEnded => outcome.tag = "ParsingError"

\* C3 amended: an unparsable line at position k after items that all parse
\* and whose running totals stay in the range of Number makes sum return
\* ParsingError, never Ok; with or without overflow, no Ok value is
\* returned and no item after k is pulled.
C3_ParsingErrorHaltsInRange ==
    \A k \in 1..Len(input) :
        (ItemAt(k).tag = "Ok" /\ ~ValidItem(ItemAt(k)) /\ AllValidBefore(k))
            => /\ pos <= k
               /\ outcome.tag # "Ok"
               /\ (SumEnded /\ NoOverflowUpTo(k - 1))
                      => outcome.tag = "ParsingError"

\* sum returned the ParsingError of a line that has numbers before it and
\* an item after it.
C3_Witness ==
    /\ pc = "returned"
    /\ outcome.tag = "ParsingError"
    /\ pos >= 2
    /\ pos < Len(input)
    /\ RunningTotal(pos - 1) # 0

\* C4 as stated: as_number succeeds exactly on the lines that trim to an
\* optional sign followed by one or more digits.  Fails for digits that
\* denote a number outside the range of Number.
C4_ParsesExactlySignedDigits ==
    (pc = "item" /\ held.tag = "Ok")
        => (as_number(held.line).tag = "Ok" <=> IsSignedDigits(Trimmed(held.line)))

\* C4 amended: as_number succeeds exactly on the lines that trim to an
\* optional sign followed by one or more digits denoting a number in the
\* range of Number; every other line is rejected with ParsingError, and a
\* line that is empty after trimming makes the call end with ParsingError
\* instead of contributing zero.
C4_ParsesExactlySignedDigitsInRange ==
    /\ (pc = "item" /\ held.tag = "Ok")
           => /\ as_number(held.line).tag = "Ok" <=> ValidItem(held)
              /\ as_number(held.line).tag \in {"Ok", "ParsingError"}
              /\ as_number(held.line).tag = "Ok"
                     => as_number(held.line).value = LineValue(held)
    /\ (held = None /\ pos >= 1 /\ ItemAt(pos).tag = "Ok")
           => /\ outcome.tag = "ParsingError" <=> ~ValidItem(ItemAt(pos))
              /\ Trimmed(ItemAt(pos).line) = <<>>
                     => (pc # "next" /\ outcome.tag = "ParsingError")

\* A blank line after a number has been rejected.
C4_Witness ==
    /\ pc = "returned"
    /\ pos >= 2
    /\ ItemAt(pos).tag = "Ok"
    /\ ItemAt(pos).line # <<>>
    /\ Trimmed(ItemAt(pos).line) = <<>>
    /\ outcome.tag = "ParsingError"

\* C5: the rendered message of a ParsingError contains the offending line
\* exactly as it was supplied, surrounding whitespace included.
C5_MessageContainsLineVerbatim ==
    outcome.tag = "ParsingError"
        => /\ outcome.input = input[pos].line
           /\ Contains(to_string(outcome), input[pos].line)

\* A ParsingError for an invalid line with whitespace on both sides.
C5_Witness ==
    /\ outcome.tag = "ParsingError"
    /\ Len(input[pos].line) = 3
    /\ input[pos].line[1] \in Whitespace
    /\ input[pos].line[2] = "$"
    /\ input[pos].line[3] \in Whitespace

EmptyInputMessage ==
    <<"C", "o", "u", "l", "d", " ", "n", "o", "t", " ", "p", "a",
      "r", "s", "e", " ", "\"", "\"", " ", "t", "o", " ", "n", "u",
      "m", "b", "e", "r">>

\* C6: the message of a ParsingError for the empty line is the fixed
\* template around nothing, and holds no "$".
C6_EmptyLineMessageIsTemplate ==
    (outcome.tag = "ParsingError" /\ input[pos].line = <<>>)
        => /\ to_string(outcome) = EmptyInputMessage
           /\ ~Contains(to_string(outcome), <<"$">>)

\* A ParsingError for the empty line.
C6_Witness ==
    /\ pc = "returned"
    /\ outcome.tag = "ParsingError"
    /\ input[pos].line = <<>>
    /\ outcome.input = <<>>

\* C7: sum and sum_strings on the empty sequence return Ok(0) without
\* pulling an item.
C7_EmptySequenceSumsToZero ==
    (SumEnded /\ input = <<>>) => (outcome = OkNumber(0) /\ pos = 0)

\* sum_strings returned on the empty sequence.
C7_Witness ==
    /\ caller = "sum_strings"
    /\ input = <<>>
    /\ pc = "returned"

\* The strings given to sum_strings, each wrapped as Ok.
WrappedInput == [k \in 1..Len(input) |-> Ok(input[k].line)]

\* C8: sum_strings returns what sum returns on the strings wrapped as Ok
\* (sum(items, checks), which the calls of sum return too), and never an
\* InputError.
C8_SumStringsDelegatesToSum ==
    /\ (caller = "sum_strings" /\ SumEnded)
           => /\ outcome = sum(WrappedInput, overflowChecks)
              /\ outcome.tag # "InputError"
    /\ (caller = "sum" /\ SumEnded) => outcome = sum(input, overflowChecks)

\* sum_strings returned the ParsingError of a line with whitespace that
\* follows a number.
C8_Witness ==
    /\ caller = "sum_strings"
    /\ pc = "returned"
    /\ outcome.tag = "ParsingError"
    /\ pos >= 2
    /\ input[pos].line # Trimmed(input[pos].line)

\* C9: in the executable, an error of either kind from sum ends in a
\* diagnostic on the error stream, a non-zero exit status and nothing on
\* standard output; a sum line is printed only when sum returned Ok.
C9_MainReportsErrors ==
    caller = "main"
        => /\ stdout # <<>> => outcome.tag = "Ok"
           /\ (pc = "exited" /\ outcome.tag \in {"InputError", "ParsingError"})
                  => /\ stderr # <<>>
                     /\ exitStatus > 0
                     /\ stdout = <<>>
           /\ (pc = "returned" /\ outcome.tag \in {"InputError", "ParsingError"})
                  => (stdout = <<>> /\ ENABLED MainReportError)

\* The executable exited after an InputError that followed a number.
C9_Witness ==
    /\ caller = "main"
    /\ pc = "exited"
    /\ outcome.tag = "InputError"
    /\ pos >= 2

\* C10: an item is pulled only when the item before it has been pulled,
\* processed and added to the accumulator; positions are pulled in order,
\* once each, and at most one unprocessed item is held.
C10_OneItemAtATime ==
    /\ [](/\ handled <= pos
          /\ pos <= handled + 1
          /\ held = None <=> handled = pos)
    /\ [][pos' # pos
             => /\ pos' = pos + 1
                /\ held = None
                /\ handled = pos
                /\ acc = WrapNumber(RunningTotal(pos))
                /\ held' = ItemAt(pos')]_vars

\* The third item is held while two have been processed.
C10_Witness ==
    /\ pos = 3
    /\ handled = 2
    /\ held # None
    /\ acc # 0

\* The item at position k fails and is the earliest that does.
EarliestFailing(k) == ~ValidItem(ItemAt(k)) /\ AllValidBefore(k)

\* A failing item of the other kind follows position k.
OtherKindFailsLater(k) ==
    \E j \in (k + 1)..Len(input) :
        ~ValidItem(ItemAt(j)) /\ ItemAt(j).tag # ItemAt(k).tag

\* The error returned is the one of the failing item at position k.
IsErrorOf(result, k) ==
    IF ItemAt(k).tag = "Err"
    THEN result = InputError(ItemAt(k).error)
    ELSE result.tag = "ParsingError" /\ result.input = ItemAt(k).line

\* C11 as stated: with failing items of both kinds in the input, sum
\* returns the error of the earliest failing item.  Fails when the items
\* before it overflow in a build with overflow checks.
C11_EarliestFailureDecides ==
    \A k \in 1..Len(input) :
        (EarliestFailing(k) /\ OtherKindFailsLater(k))
            => (SumEnded => IsErrorOf(outcome, k))

\* C11 amended: with failing items of both kinds in the input, any error
\* sum returns is the one of the earliest failing item, whatever fails
\* later, and sum returns it whenever the running totals of the items
\* before it stay in the range of Number.
C11_EarliestFailureDecidesInRange ==
    \A k \in 1..Len(input) :
        (EarliestFailing(k) /\ OtherKindFailsLater(k))
            => /\ outcome.tag \in {"InputError", "ParsingError"}
                      => IsErrorOf(outcome, k)
               /\ outcome.tag # "Ok"
               /\ (SumEnded /\ NoOverflowUpTo(k - 1)) => IsErrorOf(outcome, k)

\* sum returned the ParsingError of a line that follows a number and is
\* followed by a failed read.
C11_Witness ==
    /\ pc = "returned"
    /\ pos >= 2
    /\ EarliestFailing(pos)
    /\ OtherKindFailsLater(pos)
    /\ outcome.tag = "ParsingError"
    /\ outcome.input = ItemAt(pos).line

====
